---- MODULE Spec2Model ----
(***************************************************************************)
(* Wallet ledger and settlement of casino-bot (src/bot.py).                *)
(*                                                                         *)
(* The MongoDB collections users, transactions and games_history, and the  *)
(* Crypto Pay gateway (invoices, checks), are the shared state.  Every     *)
(* request (a web request to /api/webapp/init or /api/game/play, or a      *)
(* Telegram update handled by start, process_deposit, check_deposit or     *)
(* process_withdraw) is a coroutine that suspends at each awaited store or *)
(* gateway call; one action of the model is the code of a handler between  *)
(* two such calls, the call included.  The credential verifier and the     *)
(* slots pay table are pure functions with specifications of their own.    *)
(*                                                                         *)
(* Money is counted in tenths of a USDT (0.1 USDT = 1).  Multipliers are   *)
(* counted in halves (1.5x = 3), so bet * multiplier is exact for the even *)
(* bets the model draws.                                                   *)
(***************************************************************************)
EXTENDS Integers, FiniteSets, Sequences, TLC

\* ------------------------------------------------------------- bounds
NumProcs == 2        \* request contexts, each handling one request
MaxInvoices == 2     \* invoices the gateway will issue
MaxFields == 2       \* fields of an initData besides its hash

\* ------------------------------------------------- program constants
MIN_DEPOSIT == 10    \* 1 USDT
MIN_WITHDRAW == 10   \* 1 USDT
MAX_BET == 1000      \* 100 USDT
MIN_BET == 1         \* 0.1 USDT

ADMIN_IDS == {8, 9}  \* two administrators
Procs == 1..NumProcs
UserIds == {1, 2}

\* The inputs the requests are drawn from.  A message text is a number or
\* something float() rejects with ValueError.
Num(n) == [num |-> TRUE, val |-> n]
NotANumber == [num |-> FALSE, val |-> 0]
BetAmounts == {0, 10, MAX_BET + 2}
DepositTexts == {NotANumber, Num(MIN_DEPOSIT - 1), Num(MIN_DEPOSIT)}
WithdrawTexts == {NotANumber, Num(MIN_WITHDRAW - 1), Num(MIN_WITHDRAW)}
GameTypes == {"slots", "roulette"}
Symbols == 0..5      \* index into symbols; 4 is the diamond, 5 is the 7
RouletteNumbers == 0..36

\* ------------------------------------------------------ typed values
\* MongoDB compares values by type and value: the number 7 and the string
\* "7" are different keys.  A document without the field indexes as null.
IntId(n) == [t |-> "int", v |-> n]
StrId(n) == [t |-> "str", v |-> n]
NoField == [t |-> "null", v |-> 0]
\* f"{x}" of an id: the decimal string of a number, a string unchanged.
Format(id) == [t |-> "str", v |-> id.v]

\* ------------------------------------------------------- credentials
\* A text is a sequence of characters.  Alphabet lists the characters the
\* model uses in code point order, which is the order sorted() compares by.
\* The letters stand for field names: a for auth_date, h for hash, u for user.
Alphabet == <<"\n", "#", "%", "0", "1", "2", "=", "a", "h", "u", "{", "}">>
Ord(c) == CHOOSE i \in 1..Len(Alphabet) : Alphabet[i] = c

RECURSIVE Less(_, _)
Less(s, t) ==
    IF t = <<>> THEN FALSE
    ELSE IF s = <<>> THEN TRUE
    ELSE IF s[1] = t[1] THEN Less(Tail(s), Tail(t))
    ELSE Ord(s[1]) < Ord(t[1])

\* sorted(texts), by insertion.
RECURSIVE Insert(_, _)
Insert(x, texts) ==
    IF texts = <<>> THEN <<x>>
    ELSE IF Less(texts[1], x) THEN <<texts[1]>> \o Insert(x, Tail(texts))
    ELSE <<x>> \o texts

RECURSIVE Sorted(_)
Sorted(texts) ==
    IF texts = <<>> THEN <<>> ELSE Insert(texts[1], Sorted(Tail(texts)))

\* '\n'.join(texts)
RECURSIVE Join(_)
Join(texts) ==
    IF texts = <<>> THEN <<>>
    ELSE IF Len(texts) = 1 THEN texts[1]
    ELSE texts[1] \o <<"\n">> \o Join(Tail(texts))

\* initData is a query string, modelled by its k=v pairs in order.
Pair(k, v) == [k |-> k, v |-> v]
HashKey == <<"h">>
UserKey == <<"u">>

\* parse_qsl drops the pairs with a blank value (keep_blank_values=False).
parse_qsl(init_data) == SelectSeq(init_data, LAMBDA f : f.v # <<>>)

\* dict(pairs): of the pairs with one key the last wins.
Dict(pairs) ==
    [k \in {pairs[i].k : i \in 1..Len(pairs)} |->
        LET last == CHOOSE i \in 1..Len(pairs) :
                        /\ pairs[i].k = k
                        /\ \A j \in (i + 1)..Len(pairs) : pairs[j].k # k
        IN pairs[last].v]

\* HMAC-SHA256(key, text).hexdigest(), taken to be free of collisions: the
\* digest names its key and its text.  "#" is the key derived from
\* BOT_TOKEN, "%" any other key.
SecretKey == "#"
OtherKey == "%"
hexdigest(key, text) == <<key>> \o text

\* [f"{k}={v}" for k, v in data.items()]; the order of the items is of no
\* consequence, the list is sorted next.
RECURSIVE Lines(_, _)
Lines(data, keys) ==
    IF keys = {} THEN <<>>
    ELSE LET k == CHOOSE x \in keys : TRUE
         IN <<k \o <<"=">> \o data[k]>> \o Lines(data, keys \ {k})

CheckString(data) == Join(Sorted(Lines(data, DOMAIN data)))

validate_telegram_data(init_data) ==
    LET data == Dict(parse_qsl(init_data))
        received_hash == IF HashKey \in DOMAIN data THEN data[HashKey] ELSE <<>>
        rest == [k \in DOMAIN data \ {HashKey} |-> data[k]]
    IN hexdigest(SecretKey, CheckString(rest)) = received_hash

\* json.loads of a user payload: {"id": d} is written <<"{", d, "}">>, an
\* object without id <<"{", "}">>; any other text raises ValueError.
None == -1
Digits == <<"0", "1", "2">>
DigitValue(c) == (CHOOSE i \in 1..Len(Digits) : Digits[i] = c) - 1
IsDigit(c) == \E i \in 1..Len(Digits) : Digits[i] = c
UserPayload(d) == <<"{", Digits[d + 1], "}">>
EmptyPayload == <<"{", "}">>

extract_user_id(init_data) ==
    LET data == Dict(parse_qsl(init_data))
        text == IF UserKey \in DOMAIN data THEN data[UserKey] ELSE EmptyPayload
    IN IF Len(text) = 3 /\ text[1] = "{" /\ text[3] = "}" /\ IsDigit(text[2])
       THEN DigitValue(text[2])
       ELSE None

\* `not x` of Python for an id and for a text.
Falsy(user_id) == user_id = None \/ user_id = 0

VARIABLES
    users,          \* db.users: user id -> [present, balance]
    transactions,   \* db.transactions: set of documents
    games_history,  \* db.games_history: set of documents
    invoices,       \* gateway: sequence of [amount, status], id = index
    checks,         \* gateway: checks created, one per creating request
    idKind,         \* gateway: JSON type of invoice_id, "int" or "str"
    pc,             \* request context -> position in its handler
    loc,            \* request context -> locals of its handler
    did,            \* history: store effects a request has applied
    conc            \* history: requests in flight together with a request

vars == <<users, transactions, games_history, invoices, checks, idKind,
          pc, loc, did, conc>>

store == <<users, transactions, games_history>>
gateway == <<invoices, checks, idKind>>

NoLoc == [kind |-> "none", user_id |-> 0, amount |-> 0, invoice_id |-> NoField,
          game_type |-> "", seen |-> 0, multiplier |-> 0, win_amount |-> 0,
          new_balance |-> 0, reply |-> "", init_data |-> <<>>,
          notified |-> {}, failed |-> {}, reels |-> <<>>,
          number |-> 0, color |-> "", is_win |-> FALSE]

\* The locals left by a request answered on arrival, and by a handler that
\* has raised: only what it was, for whom, and how it ended.
Rejected(kind, reply) == [NoLoc EXCEPT !.kind = kind, !.reply = reply]
Raised(l) == [NoLoc EXCEPT !.kind = l.kind, !.user_id = l.user_id,
                           !.reply = "exception"]

InFlight(p) == pc[p] \notin {"idle", "done", "failed"}

\* The id the gateway's JSON carries for invoice number n.
InvoiceId(n) == IF idKind = "int" THEN IntId(n) ELSE StrId(n)

\* ---------------------------------------------------------------- Init
\* The store after /start by user 1 and possibly by user 2, and a deposit of
\* MIN_DEPOSIT by user 1 whose invoice (number 1) is paid.  Either the
\* deposit is not confirmed yet, or check_deposit has run once: with a
\* gateway whose ids are JSON strings it has marked the transaction
\* completed; with numeric ids its update matched no document and the
\* transaction is still pending (see CdComplete).
Account(b) == [present |-> TRUE, balance |-> b]
NoAccount == [present |-> FALSE, balance |-> 0]

Init ==
    /\ idKind \in {"int", "str"}
    /\ \E confirmed \in BOOLEAN, second \in BOOLEAN :
        /\ users = [u \in UserIds |->
                       IF u = 1 THEN Account(IF confirmed THEN MIN_DEPOSIT ELSE 0)
                       ELSE IF second THEN Account(0) ELSE NoAccount]
        /\ transactions =
               {[id |-> 0, user_id |-> 1, type |-> "deposit",
                 amount |-> MIN_DEPOSIT,
                 status |-> IF confirmed /\ idKind = "str"
                            THEN "completed" ELSE "pending",
                 invoice_id |-> InvoiceId(1)]}
    /\ invoices = <<[amount |-> MIN_DEPOSIT, status |-> "paid"]>>
    /\ games_history = {}
    /\ checks = {}
    /\ pc = [p \in Procs |-> "idle"]
    /\ loc = [p \in Procs |-> NoLoc]
    /\ did = [p \in Procs |-> {}]
    /\ conc = [p \in Procs |-> {}]

\* ------------------------------------------------------------ helpers
\* Request contexts are taken in order: which context serves a request is
\* of no consequence.
Free(p) == pc[p] = "idle" /\ \A q \in Procs : q < p => pc[q] # "idle"

\* History: request p goes in flight next to the requests already in flight.
Arrive(p) ==
    conc' = [r \in Procs |->
                IF r = p THEN {q \in Procs \ {p} : InFlight(q)}
                ELSE IF InFlight(r) THEN conc[r] \cup {p}
                ELSE conc[r]]

Goto(p, label) == pc' = [pc EXCEPT ![p] = label]
Did(p, effect) == did' = [did EXCEPT ![p] = @ \cup {effect}]

\* A $set in place of the $inc: the balance becomes the delta.
SetBalance(u, delta) ==
    IF users[u].present
    THEN [users EXCEPT ![u].balance = delta]
    ELSE users

\* update_one({"user_id": u}, {"$inc": {"balance": delta}}): one atomic
\* increment of the matching document; no document, no change (no upsert).
IncBalance(u, delta) ==
    IF users[u].present
    THEN [users EXCEPT ![u].balance = @ + delta]
    ELSE users

\* insert_one with no unique index on invoice_id: every document is taken.
NoUniqueIndex(doc) == FALSE

\* insert_one under the unique index on invoice_id: DuplicateKeyError when a
\* document with an equal key (equal type and value, or both absent) exists.
DuplicateKey(doc) == \E t \in transactions : t.invoice_id = doc.invoice_id

\* ---------------------------------------------------------- game engine
\* slots_game paying 1.5x for any two equal reels, the outer two included.
SlotsAnyPair(reels) ==
    IF reels[1] = reels[2] /\ reels[2] = reels[3]
    THEN IF reels[1] = 5 THEN 20
         ELSE IF reels[1] = 4 THEN 10
         ELSE 6
    ELSE IF reels[1] = reels[2] \/ reels[2] = reels[3] \/ reels[1] = reels[3]
    THEN 3
    ELSE 0

\* slots_game: the multiplier of three reels, in halves.
SlotsMultiplier(reels) ==
    IF reels[1] = reels[2] /\ reels[2] = reels[3]
    THEN IF reels[1] = 5 THEN 20
         ELSE IF reels[1] = 4 THEN 10
         ELSE 6
    ELSE IF reels[1] = reels[2] \/ reels[2] = reels[3] THEN 3
    ELSE 0

\* win_amount = bet_amount * multiplier, the multiplier in halves.
WinAmount(bet_amount, multiplier) == (bet_amount * multiplier) \div 2

slots_game(bet_amount, reels) ==
    [multiplier |-> SlotsMultiplier(reels),
     win_amount |-> WinAmount(bet_amount, SlotsMultiplier(reels))]

\* roulette_game on a wheel where the green zero always loses.
RouletteZeroLoses(bet_amount, number, is_win) ==
    [multiplier |-> IF is_win /\ number # 0 THEN 4 ELSE 0,
     win_amount |-> WinAmount(bet_amount, IF is_win /\ number # 0 THEN 4 ELSE 0)]

\* roulette_game: the drawn number only decides the colour shown.
roulette_game(bet_amount, number, is_win) ==
    [multiplier |-> IF is_win THEN 4 ELSE 0,
     win_amount |-> WinAmount(bet_amount, IF is_win THEN 4 ELSE 0)]

\* process_game: the results the random source can give for a game type.
process_game(game_type, bet_amount) ==
    IF game_type = "roulette"
    THEN {roulette_game(bet_amount, number, is_win) :
              number \in RouletteNumbers, is_win \in BOOLEAN}
    ELSE {slots_game(bet_amount, reels) : reels \in [1..3 -> Symbols]}

\* ------------------------------------------------------------ game_play
\* Lines 177-190: the request arrives with a verified credential of user u;
\* a bet outside [0.1, MAX_BET] is answered 400 before any store call.
PlayRequest(p) ==
    /\ Free(p)
    /\ \E u \in UserIds, g \in GameTypes, bet \in BetAmounts :
        IF MIN_BET <= bet /\ bet <= MAX_BET
        THEN /\ loc' = [loc EXCEPT ![p] = [NoLoc EXCEPT !.kind = "play",
                            !.user_id = u, !.game_type = g, !.amount = bet]]
             /\ Goto(p, "gp_find")
             /\ Arrive(p)
        ELSE /\ loc' = [loc EXCEPT ![p] = Rejected("play", "invalid_bet")]
             /\ Goto(p, "done")
             /\ UNCHANGED conc
    /\ UNCHANGED <<store, gateway, did>>

\* GpFind with the bet taken before the balance is looked at.
GpFindDebitsFirst(p) ==
    /\ pc[p] = "gp_find"
    /\ LET user == users[loc[p].user_id] IN
       IF ~user.present \/ user.balance < loc[p].amount
       THEN /\ users' = IncBalance(loc[p].user_id, -loc[p].amount)
            /\ Did(p, "debit")
            /\ loc' = [loc EXCEPT ![p].reply = "insufficient"]
            /\ Goto(p, "done")
       ELSE /\ loc' = [loc EXCEPT ![p].seen = user.balance]
            /\ Goto(p, "gp_debit")
            /\ UNCHANGED <<users, did>>
    /\ UNCHANGED <<transactions, games_history, gateway, conc>>

\* Lines 193-195: read the account, refuse when absent or short of the bet.
GpFind(p) ==
    /\ pc[p] = "gp_find"
    /\ LET user == users[loc[p].user_id] IN
       IF ~user.present \/ user.balance < loc[p].amount
       THEN /\ loc' = [loc EXCEPT ![p].reply = "insufficient"]
            /\ Goto(p, "done")
       ELSE /\ loc' = [loc EXCEPT ![p].seen = user.balance]
            /\ Goto(p, "gp_debit")
    /\ UNCHANGED <<store, gateway, did, conc>>

\* Lines 198-201: debit the bet, whatever the balance has become.
GpDebit(p) ==
    /\ pc[p] = "gp_debit"
    /\ users' = IncBalance(loc[p].user_id, -loc[p].amount)
    /\ Did(p, "debit")
    /\ Goto(p, "gp_credit")
    /\ UNCHANGED <<transactions, games_history, gateway, loc, conc>>

\* GpCredit with the win computed and reported but not added to the balance.
GpCreditLost(p) ==
    /\ pc[p] = "gp_credit"
    /\ \E result \in process_game(loc[p].game_type, loc[p].amount) :
        loc' = [loc EXCEPT ![p].multiplier = result.multiplier,
                           ![p].win_amount = result.win_amount]
    /\ Did(p, "credit")
    /\ Goto(p, "gp_insert")
    /\ UNCHANGED <<store, gateway, conc>>

\* Lines 204-210: play (no suspension inside process_game), credit the win.
GpCredit(p) ==
    /\ pc[p] = "gp_credit"
    /\ \E result \in process_game(loc[p].game_type, loc[p].amount) :
        /\ loc' = [loc EXCEPT ![p].multiplier = result.multiplier,
                              ![p].win_amount = result.win_amount]
        /\ users' = IncBalance(loc[p].user_id, result.win_amount)
    /\ Did(p, "credit")
    /\ Goto(p, "gp_insert")
    /\ UNCHANGED <<transactions, games_history, gateway, conc>>

\* Lines 213-220: the game round record.
GpInsert(p) ==
    /\ pc[p] = "gp_insert"
    /\ games_history' = games_history \cup
           {[id |-> p, user_id |-> loc[p].user_id,
             game_type |-> loc[p].game_type, bet_amount |-> loc[p].amount,
             win_amount |-> loc[p].win_amount,
             multiplier |-> loc[p].multiplier]}
    /\ Did(p, "record")
    /\ Goto(p, "gp_read")
    /\ UNCHANGED <<users, transactions, gateway, loc, conc>>

\* Lines 222-228: read the balance back and answer.
GpRead(p) ==
    /\ pc[p] = "gp_read"
    /\ loc' = [loc EXCEPT ![p].new_balance = users[loc[p].user_id].balance,
                          ![p].reply = "success"]
    /\ Goto(p, "done")
    /\ UNCHANGED <<store, gateway, did, conc>>

\* ------------------------------------------------------ process_deposit
\* Lines 372-380, 430-434: the amount text; not a number or below
\* MIN_DEPOSIT is answered without any gateway or store call.
DepositRequest(p) ==
    /\ Free(p)
    /\ \E u \in UserIds, text \in DepositTexts :
        LET start == [NoLoc EXCEPT !.kind = "deposit", !.user_id = u,
                                   !.amount = text.val] IN
        IF ~text.num
        THEN /\ loc' = [loc EXCEPT ![p] = Rejected("deposit", "not_a_number")]
             /\ Goto(p, "done")
             /\ UNCHANGED conc
        ELSE IF text.val < MIN_DEPOSIT
        THEN /\ loc' = [loc EXCEPT ![p] = Rejected("deposit", "below_minimum")]
             /\ Goto(p, "done")
             /\ UNCHANGED conc
        ELSE /\ loc' = [loc EXCEPT ![p] = start]
             /\ Goto(p, "pd_invoice")
             /\ Arrive(p)
    /\ UNCHANGED <<store, gateway, did>>

\* Lines 383-396, 425-429: createInvoice; the gateway issues the next invoice
\* or answers not ok.
PdInvoice(p) ==
    /\ pc[p] = "pd_invoice"
    /\ \/ /\ Len(invoices) < MaxInvoices
          /\ invoices' = Append(invoices,
                                [amount |-> loc[p].amount, status |-> "active"])
          /\ loc' = [loc EXCEPT ![p].invoice_id = InvoiceId(Len(invoices) + 1)]
          /\ Goto(p, "pd_insert")
       \/ /\ loc' = [loc EXCEPT ![p].reply = "gateway_error"]
          /\ Goto(p, "done")
          /\ UNCHANGED invoices
    /\ UNCHANGED <<store, checks, idKind, did, conc>>

\* PdInsert with the amount credited as soon as the invoice is recorded.
PdInsertCredits(p) ==
    /\ pc[p] = "pd_insert"
    /\ LET doc == [id |-> p, user_id |-> loc[p].user_id, type |-> "deposit",
                   amount |-> loc[p].amount, status |-> "pending",
                   invoice_id |-> loc[p].invoice_id] IN
       /\ ~DuplicateKey(doc)
       /\ transactions' = transactions \cup {doc}
       /\ users' = IncBalance(loc[p].user_id, loc[p].amount)
       /\ loc' = [loc EXCEPT ![p].reply = "invoice_created"]
       /\ did' = [did EXCEPT ![p] = @ \cup {"tx_insert", "credit"}]
       /\ Goto(p, "done")
    /\ UNCHANGED <<games_history, gateway, conc>>

\* Lines 394-397: createInvoice answers ok with an invoice id it has given
\* before; the handler takes result["result"]["invoice_id"] as it comes.
PdInvoiceRepeated(p) ==
    /\ pc[p] = "pd_invoice"
    /\ \E n \in 1..Len(invoices) :
        loc' = [loc EXCEPT ![p].invoice_id = InvoiceId(n)]
    /\ Goto(p, "pd_insert")
    /\ UNCHANGED <<store, gateway, did, conc>>

\* Lines 400-424: the pending transaction, keyed by the id as the gateway
\* gave it; then the message with the button check_dep_<id>.
PdInsert(p) ==
    /\ pc[p] = "pd_insert"
    /\ LET doc == [id |-> p, user_id |-> loc[p].user_id, type |-> "deposit",
                   amount |-> loc[p].amount, status |-> "pending",
                   invoice_id |-> loc[p].invoice_id] IN
       IF DuplicateKey(doc)
       THEN /\ Goto(p, "failed")
            /\ loc' = [loc EXCEPT ![p] = Raised(loc[p])]
            /\ UNCHANGED <<transactions, did>>
       ELSE /\ transactions' = transactions \cup {doc}
            /\ loc' = [loc EXCEPT ![p].reply = "invoice_created"]
            /\ Did(p, "tx_insert")
            /\ Goto(p, "done")
    /\ UNCHANGED <<users, games_history, gateway, conc>>

\* The payer pays an active invoice at the gateway.
PayInvoice(n) ==
    /\ n \in 1..Len(invoices)
    /\ invoices[n].status = "active"
    /\ invoices' = [invoices EXCEPT ![n].status = "paid"]
    /\ UNCHANGED <<store, checks, idKind, pc, loc, did, conc>>

\* -------------------------------------------------------- check_deposit
\* Line 440: the invoice id is the text after check_dep_ in the callback
\* data, a string; the caller is whoever pressed the button.
CheckRequest(p) ==
    /\ Free(p)
    /\ \E u \in UserIds, n \in 1..MaxInvoices :
        /\ loc' = [loc EXCEPT ![p] = [NoLoc EXCEPT !.kind = "check",
                       !.user_id = u, !.invoice_id = Format(InvoiceId(n))]]
    /\ Goto(p, "cd_lookup")
    /\ Arrive(p)
    /\ UNCHANGED <<store, gateway, did>>

\* CdLookup with the credit applied before the invoice status is tested.
CdLookupCreditsUnpaid(p) ==
    /\ pc[p] = "cd_lookup"
    /\ LET n == loc[p].invoice_id.v IN
       /\ n <= Len(invoices)
       /\ IF invoices[n].status = "paid"
          THEN /\ loc' = [loc EXCEPT ![p].amount = invoices[n].amount]
               /\ Goto(p, "cd_find")
               /\ UNCHANGED <<users, did>>
          ELSE /\ users' = IncBalance(loc[p].user_id, invoices[n].amount)
               /\ Did(p, "credit")
               /\ loc' = [loc EXCEPT ![p].reply = "waiting"]
               /\ Goto(p, "done")
    /\ UNCHANGED <<transactions, games_history, gateway, conc>>

\* Lines 442-452, 492-495: getInvoices; not ok, not paid, or paid with the
\* amount.  An id the gateway does not know gives no items: IndexError.
CdLookup(p) ==
    /\ pc[p] = "cd_lookup"
    /\ LET n == loc[p].invoice_id.v IN
       \/ /\ loc' = [loc EXCEPT ![p].reply = "check_error"]
          /\ Goto(p, "done")
       \/ /\ n > Len(invoices)
          /\ Goto(p, "failed")
          /\ loc' = [loc EXCEPT ![p] = Raised(loc[p])]
       \/ /\ n <= Len(invoices)
          /\ IF invoices[n].status = "paid"
             THEN /\ loc' = [loc EXCEPT ![p].amount = invoices[n].amount]
                  /\ Goto(p, "cd_find")
             ELSE /\ loc' = [loc EXCEPT ![p].reply = "waiting"]
                  /\ Goto(p, "done")
    /\ UNCHANGED <<store, gateway, did, conc>>

\* find_one({"invoice_id": id, "status": "completed"}).
Completed(id) ==
    \E t \in transactions : t.invoice_id = id /\ t.status = "completed"

\* Lines 455-460, 486-491: already processed?  Then only the success message.
CdFind(p) ==
    /\ pc[p] = "cd_find"
    /\ IF Completed(loc[p].invoice_id)
       THEN /\ loc' = [loc EXCEPT ![p].reply = "success"]
            /\ Goto(p, "done")
       ELSE /\ Goto(p, "cd_credit")
            /\ UNCHANGED loc
    /\ UNCHANGED <<store, gateway, did, conc>>

\* Lines 462-465: credit the caller.
CdCredit(p) ==
    /\ pc[p] = "cd_credit"
    /\ users' = IncBalance(loc[p].user_id, loc[p].amount)
    /\ did' = [did EXCEPT ![p] = IF users[loc[p].user_id].present
                                 THEN @ \cup {"credit"} ELSE @]
    /\ Goto(p, "cd_complete")
    /\ UNCHANGED <<transactions, games_history, gateway, loc, conc>>

\* A replace_one in place of the $set: the matched document loses its amount.
SetCompletedReplaces(id) ==
    {IF t.invoice_id = id
     THEN [t EXCEPT !.status = "completed", !.amount = 0] ELSE t :
         t \in transactions}

\* update_one({"invoice_id": id}, {"$set": {"status": "completed"}}).
SetCompleted(id) ==
    {IF t.invoice_id = id THEN [t EXCEPT !.status = "completed"] ELSE t :
         t \in transactions}

\* Lines 467-471: mark the transaction completed; the result of the update
\* is not looked at.
CdComplete(p) ==
    /\ pc[p] = "cd_complete"
    /\ transactions' = SetCompleted(loc[p].invoice_id)
    /\ did' = [did EXCEPT ![p] =
                  IF \E t \in transactions : /\ t.invoice_id = loc[p].invoice_id
                                             /\ t.status = "pending"
                  THEN @ \cup {"tx_complete"} ELSE @]
    /\ Goto(p, "cd_notify")
    /\ UNCHANGED <<users, games_history, gateway, loc, conc>>

\* CdNotify without the try/except around send_message: the first send
\* that raises ends the handler.
CdNotifyRaises(p) ==
    /\ pc[p] = "cd_notify"
    /\ \E failed \in SUBSET ADMIN_IDS :
        IF failed = {}
        THEN /\ loc' = [loc EXCEPT ![p].notified = ADMIN_IDS,
                                   ![p].reply = "success"]
             /\ Goto(p, "done")
        ELSE /\ loc' = [loc EXCEPT ![p] = Raised(loc[p])]
             /\ Goto(p, "failed")
    /\ UNCHANGED <<store, gateway, did, conc>>

\* Lines 473-491: one send_message per admin, each in its own try/except
\* that passes; the sends touch no store.  Then the success message.
CdNotify(p) ==
    /\ pc[p] = "cd_notify"
    /\ \E failed \in SUBSET ADMIN_IDS :
        loc' = [loc EXCEPT ![p].notified = ADMIN_IDS \ failed,
                           ![p].failed = failed,
                           ![p].reply = "success"]
    /\ Goto(p, "done")
    /\ UNCHANGED <<store, gateway, did, conc>>

\* ----------------------------------------------------- process_withdraw
\* Lines 513-515, 593-597: the amount text; float() raises ValueError before
\* any store call.
WithdrawRequest(p) ==
    /\ Free(p)
    /\ \E u \in UserIds, text \in WithdrawTexts :
        LET start == [NoLoc EXCEPT !.kind = "withdraw", !.user_id = u,
                                   !.amount = text.val] IN
        IF ~text.num
        THEN /\ loc' = [loc EXCEPT ![p] = Rejected("withdraw", "not_a_number")]
             /\ Goto(p, "done")
             /\ UNCHANGED conc
        ELSE /\ loc' = [loc EXCEPT ![p] = start]
             /\ Goto(p, "pw_find")
             /\ Arrive(p)
    /\ UNCHANGED <<store, gateway, did>>

\* Lines 518-534: read the account, then the two checks on the amount.  With
\* no account user_data is None and user_data['balance'] raises TypeError.
PwFind(p) ==
    /\ pc[p] = "pw_find"
    /\ LET user == users[loc[p].user_id] IN
       IF loc[p].amount < MIN_WITHDRAW
       THEN /\ loc' = [loc EXCEPT ![p].reply = "below_minimum"]
            /\ Goto(p, "done")
       ELSE IF ~user.present
       THEN /\ Goto(p, "failed")
            /\ loc' = [loc EXCEPT ![p] = Raised(loc[p])]
       ELSE IF loc[p].amount > user.balance
       THEN /\ loc' = [loc EXCEPT ![p].reply = "insufficient"]
            /\ Goto(p, "done")
       ELSE /\ loc' = [loc EXCEPT ![p].seen = user.balance]
            /\ Goto(p, "pw_check")
    /\ UNCHANGED <<store, gateway, did, conc>>

\* PwCheck with the debit applied before the gateway call and not reversed
\* when the gateway answers not ok.
PwCheckDebitsFirst(p) ==
    /\ pc[p] = "pw_check"
    /\ users' = IncBalance(loc[p].user_id, -loc[p].amount)
    /\ Did(p, "debit")
    /\ \/ /\ checks' = checks \cup {[id |-> p, amount |-> loc[p].amount]}
          /\ Goto(p, "pw_insert")
          /\ UNCHANGED loc
       \/ /\ loc' = [loc EXCEPT ![p].reply = "gateway_error"]
          /\ Goto(p, "done")
          /\ UNCHANGED checks
    /\ UNCHANGED <<transactions, games_history, invoices, idKind, conc>>

\* Lines 537-547, 588-592: createCheck; the gateway creates the check or
\* answers not ok.
PwCheck(p) ==
    /\ pc[p] = "pw_check"
    /\ \/ /\ checks' = checks \cup {[id |-> p, amount |-> loc[p].amount]}
          /\ Goto(p, "pw_debit")
          /\ UNCHANGED loc
       \/ /\ loc' = [loc EXCEPT ![p].reply = "gateway_error"]
          /\ Goto(p, "done")
          /\ UNCHANGED checks
    /\ UNCHANGED <<store, invoices, idKind, did, conc>>

\* Lines 551-554: debit the amount, whatever the balance has become.
PwDebit(p) ==
    /\ pc[p] = "pw_debit"
    /\ users' = IncBalance(loc[p].user_id, -loc[p].amount)
    /\ Did(p, "debit")
    /\ Goto(p, "pw_insert")
    /\ UNCHANGED <<transactions, games_history, gateway, loc, conc>>

\* Lines 556-573: the withdraw transaction; the document has no invoice_id.
\* Then the success message with the check.
PwInsert(p) ==
    /\ pc[p] = "pw_insert"
    /\ LET doc == [id |-> p, user_id |-> loc[p].user_id, type |-> "withdraw",
                   amount |-> loc[p].amount, status |-> "completed",
                   invoice_id |-> NoField] IN
       IF DuplicateKey(doc)
       THEN /\ Goto(p, "failed")
            /\ loc' = [loc EXCEPT ![p] = Raised(loc[p])]
            /\ UNCHANGED <<transactions, did>>
       ELSE /\ transactions' = transactions \cup {doc}
            /\ loc' = [loc EXCEPT ![p].reply = "success"]
            /\ Did(p, "tx_insert")
            /\ Goto(p, "pw_notify")
    /\ UNCHANGED <<users, games_history, gateway, conc>>

\* Lines 575-587: one send_message per admin, each in its own try/except
\* that passes, after the user has been answered.
PwNotify(p) ==
    /\ pc[p] = "pw_notify"
    /\ \E failed \in SUBSET ADMIN_IDS :
        loc' = [loc EXCEPT ![p].notified = ADMIN_IDS \ failed,
                           ![p].failed = failed]
    /\ Goto(p, "done")
    /\ UNCHANGED <<store, gateway, did, conc>>

\* ---------------------------------------------------------------- start
\* What Telegram issues: the fields and the digest of all of them, each as
\* k=v, sorted and joined by newlines.
AllLines(fields) ==
    [i \in 1..Len(fields) |-> fields[i].k \o <<"=">> \o fields[i].v]
Signed(key, fields) ==
    Append(fields, Pair(HashKey, hexdigest(key, Join(Sorted(AllLines(fields))))))

\* The initData values requests carry: none, Telegram's for user ids 0..2,
\* Telegram's without a user field, and one signed with another key.
InitDatas ==
    {<<>>,
     Signed(SecretKey, <<Pair(<<"a">>, <<"1">>)>>),
     Signed(OtherKey, <<Pair(<<"a">>, <<"1">>), Pair(UserKey, UserPayload(1))>>)}
    \cup {Signed(SecretKey, <<Pair(<<"a">>, <<"1">>), Pair(UserKey, UserPayload(d))>>) :
              d \in 0..2}

\* Lines 286-318: /start upserts the account; $setOnInsert gives balance 0
\* to a new document only.  Then the welcome message.
StartCommand(p) ==
    /\ Free(p)
    /\ \E u \in UserIds :
        /\ loc' = [loc EXCEPT ![p] = [NoLoc EXCEPT !.kind = "start",
                                         !.user_id = u, !.reply = "welcome"]]
        /\ IF users[u].present
           THEN UNCHANGED <<users, did>>
           ELSE /\ users' = [users EXCEPT ![u] = Account(0)]
                /\ Did(p, "create")
    /\ Goto(p, "done")
    /\ UNCHANGED <<transactions, games_history, gateway, conc>>

\* ---------------------------------------------------------- webapp_init
\* Lines 121-129: initData absent or not verified is answered 403, a
\* credential without a user id 400, both before any store call.
WebappRequest(p) ==
    /\ Free(p)
    /\ \E init_data \in InitDatas :
        IF init_data = <<>> \/ ~validate_telegram_data(init_data)
        THEN /\ loc' = [loc EXCEPT ![p] =
                           [Rejected("webapp", "forbidden") EXCEPT
                               !.init_data = init_data]]
             /\ Goto(p, "done")
             /\ UNCHANGED conc
        ELSE IF Falsy(extract_user_id(init_data))
        THEN /\ loc' = [loc EXCEPT ![p] =
                           [Rejected("webapp", "invalid_user") EXCEPT
                               !.init_data = init_data]]
             /\ Goto(p, "done")
             /\ UNCHANGED conc
        ELSE /\ loc' = [loc EXCEPT ![p] = [NoLoc EXCEPT !.kind = "webapp",
                            !.user_id = extract_user_id(init_data),
                            !.init_data = init_data]]
             /\ Goto(p, "wi_find")
             /\ Arrive(p)
    /\ UNCHANGED <<store, gateway, did>>

\* Lines 131-138: update_one sets last_active (no upsert: it creates
\* nothing and leaves the balance), then find_one reads the account.
WiFind(p) ==
    /\ pc[p] = "wi_find"
    /\ IF users[loc[p].user_id].present
       THEN /\ loc' = [loc EXCEPT ![p].seen = users[loc[p].user_id].balance]
            /\ Goto(p, "wi_stats")
       ELSE /\ Goto(p, "wi_insert")
            /\ UNCHANGED loc
    /\ UNCHANGED <<store, gateway, did, conc>>

\* WiInsert on a users collection without the unique index on user_id.
WiInsertNoIndex(p) ==
    /\ pc[p] = "wi_insert"
    /\ users' = [users EXCEPT ![loc[p].user_id] = Account(0)]
    /\ Did(p, "create")
    /\ Goto(p, "wi_stats")
    /\ UNCHANGED <<transactions, games_history, gateway, loc, conc>>

\* Lines 139-147: no account was found: insert one with balance 0.  Under
\* the unique index on user_id (line 70) the insert raises DuplicateKeyError
\* when the account has been created in the meantime.
WiInsert(p) ==
    /\ pc[p] = "wi_insert"
    /\ IF users[loc[p].user_id].present
       THEN /\ Goto(p, "failed")
            /\ loc' = [loc EXCEPT ![p] = Raised(loc[p])]
            /\ UNCHANGED <<users, did>>
       ELSE /\ users' = [users EXCEPT ![loc[p].user_id] = Account(0)]
            /\ Did(p, "create")
            /\ Goto(p, "wi_stats")
            /\ UNCHANGED loc
    /\ UNCHANGED <<transactions, games_history, gateway, conc>>

\* Lines 149-172: the statistics of the rounds (a read), then the answer
\* with the balance of the document read or inserted.
WiStats(p) ==
    /\ pc[p] = "wi_stats"
    /\ loc' = [loc EXCEPT ![p].new_balance = loc[p].seen,
                          ![p].reply = "success"]
    /\ Goto(p, "done")
    /\ UNCHANGED <<store, gateway, did, conc>>

\* ------------------------------------------- game_play, from the body
\* The betAmount values a request body carries.
BetTexts == {NotANumber} \cup {Num(bet) : bet \in BetAmounts}

\* Lines 177-190 with the body as it arrives: float(betAmount) comes first
\* and raises ValueError on a text that is no number; then initData absent
\* or not verified is answered 403, a credential without a user id 400, a
\* bet outside [0.1, MAX_BET] 400; all before any store call.
GamePlayRequest(p) ==
    /\ Free(p)
    /\ \E init_data \in InitDatas, g \in GameTypes, text \in BetTexts :
        LET ends(l) == /\ loc' = [loc EXCEPT ![p] =
                                     [l EXCEPT !.init_data = init_data]]
                       /\ UNCHANGED conc
        IN
        IF ~text.num
        THEN /\ ends([NoLoc EXCEPT !.kind = "play", !.reply = "exception"])
             /\ Goto(p, "failed")
        ELSE IF init_data = <<>> \/ ~validate_telegram_data(init_data)
        THEN ends(Rejected("play", "forbidden")) /\ Goto(p, "done")
        ELSE IF Falsy(extract_user_id(init_data))
        THEN ends(Rejected("play", "invalid_user")) /\ Goto(p, "done")
        ELSE IF ~(MIN_BET <= text.val /\ text.val <= MAX_BET)
        THEN ends(Rejected("play", "invalid_bet")) /\ Goto(p, "done")
        ELSE /\ loc' = [loc EXCEPT ![p] = [NoLoc EXCEPT !.kind = "play",
                            !.user_id = extract_user_id(init_data),
                            !.game_type = g, !.amount = text.val,
                            !.init_data = init_data]]
             /\ Goto(p, "gp_find")
             /\ Arrive(p)
    /\ UNCHANGED <<store, gateway, did>>

\* ------------------------------------------- the verifier on its own
\* The initData texts the verifier is given: up to MaxFields fields with
\* the keys a and user, a value blank, plain or a user payload, a key
\* possibly repeated; then no hash, Telegram's hash over all the fields, the
\* hash over the fields the verifier keeps, a hash under another key, or a
\* text that is no digest.
FieldKeys == {<<"a">>, UserKey}
FieldValues == {<<>>, <<"1">>, UserPayload(1), UserPayload(2)}
Fields == {Pair(k, v) : k \in FieldKeys, v \in FieldValues}
FieldLists == UNION {[1..n -> Fields] : n \in 0..MaxFields}
Hashed(fields) ==
    {fields,
     Signed(SecretKey, fields),
     Signed(OtherKey, fields),
     Append(fields, Pair(HashKey, hexdigest(SecretKey,
                                  CheckString(Dict(parse_qsl(fields)))))),
     Append(fields, Pair(HashKey, <<"a">>))}
Credentials == UNION {Hashed(fields) : fields \in FieldLists}

\* The first request context is about to call the verifier on an initData;
\* the store is empty and plays no part.
InitCredential ==
    /\ idKind = "str"
    /\ users = [u \in UserIds |-> NoAccount]
    /\ transactions = {}
    /\ invoices = <<>>
    /\ games_history = {}
    /\ checks = {}
    /\ pc = [p \in Procs |-> IF p = 1 THEN "verify" ELSE "idle"]
    /\ \E init_data \in Credentials :
        loc = [p \in Procs |->
                  IF p = 1 THEN [NoLoc EXCEPT !.kind = "verify",
                                              !.init_data = init_data]
                  ELSE NoLoc]
    /\ did = [p \in Procs |-> {}]
    /\ conc = [p \in Procs |-> {}]

\* Lines 124-127: validate_telegram_data(init_data), extract_user_id(init_data).
VerifyCall(p) ==
    /\ pc[p] = "verify"
    /\ loc' = [loc EXCEPT
                  ![p].reply = IF validate_telegram_data(loc[p].init_data)
                               THEN "valid" ELSE "invalid",
                  ![p].user_id = extract_user_id(loc[p].init_data)]
    /\ Goto(p, "done")
    /\ UNCHANGED <<store, gateway, did, conc>>

\* ------------------------------------------------ the slots on their own
\* The bets slots_game is called with: even numbers of tenths, for which
\* bet * 1.5 is a whole number of tenths.
SlotsBets == {2, MIN_DEPOSIT, MAX_BET}

\* The first request context is about to call slots_game with a bet; the
\* store is empty and plays no part.
InitSlots ==
    /\ idKind = "str"
    /\ users = [u \in UserIds |-> NoAccount]
    /\ transactions = {}
    /\ invoices = <<>>
    /\ games_history = {}
    /\ checks = {}
    /\ pc = [p \in Procs |-> IF p = 1 THEN "spin" ELSE "idle"]
    /\ \E bet \in SlotsBets :
        loc = [p \in Procs |->
                  IF p = 1 THEN [NoLoc EXCEPT !.kind = "slots", !.amount = bet]
                  ELSE NoLoc]
    /\ did = [p \in Procs |-> {}]
    /\ conc = [p \in Procs |-> {}]

\* Lines 239-263: three reels are drawn and paid.
SlotsCall(p) ==
    /\ pc[p] = "spin"
    /\ \E reels \in [1..3 -> Symbols] :
        LET result == slots_game(loc[p].amount, reels) IN
        loc' = [loc EXCEPT ![p].reels = reels,
                           ![p].multiplier = result.multiplier,
                           ![p].win_amount = result.win_amount]
    /\ Goto(p, "done")
    /\ UNCHANGED <<store, gateway, did, conc>>

\* ---------------------------------------------- the roulette on its own
\* Line 268: the colour of a number.
RedNumbers == {1, 3, 5, 7, 9, 12, 14, 16, 18, 19, 21, 23, 25, 27, 30, 32, 34, 36}
RouletteColor(number) ==
    IF number = 0 THEN "green"
    ELSE IF number \in RedNumbers THEN "red"
    ELSE "black"

\* The bets roulette_game is called with.
RouletteBets == {MIN_BET, MIN_DEPOSIT, MAX_BET}

\* The first request context is about to call roulette_game with a bet; the
\* store is empty and plays no part.
InitRoulette ==
    /\ idKind = "str"
    /\ users = [u \in UserIds |-> NoAccount]
    /\ transactions = {}
    /\ invoices = <<>>
    /\ games_history = {}
    /\ checks = {}
    /\ pc = [p \in Procs |-> IF p = 1 THEN "wheel" ELSE "idle"]
    /\ \E bet \in RouletteBets :
        loc = [p \in Procs |->
                  IF p = 1 THEN [NoLoc EXCEPT !.kind = "roulette", !.amount = bet]
                  ELSE NoLoc]
    /\ did = [p \in Procs |-> {}]
    /\ conc = [p \in Procs |-> {}]

\* Lines 265-280: the number is drawn, then, separately, the win.
RouletteCall(p) ==
    /\ pc[p] = "wheel"
    /\ \E number \in RouletteNumbers, is_win \in BOOLEAN :
        LET result == roulette_game(loc[p].amount, number, is_win) IN
        loc' = [loc EXCEPT ![p].number = number,
                           ![p].color = RouletteColor(number),
                           ![p].is_win = is_win,
                           ![p].multiplier = result.multiplier,
                           ![p].win_amount = result.win_amount]
    /\ Goto(p, "done")
    /\ UNCHANGED <<store, gateway, did, conc>>

\* ------------------------------------------------------------- failure
\* An awaited store or gateway call raises, or the request context is
\* cancelled while suspended: no handler catches it, the request ends where
\* it stands.
Abort(p) ==
    /\ InFlight(p)
    /\ loc' = [loc EXCEPT ![p] = Raised(loc[p])]
    /\ Goto(p, "failed")
    /\ UNCHANGED <<store, gateway, did, conc>>

\* ---------------------------------------------------------------- Next
Next ==
    \/ \E p \in Procs :
        \/ PlayRequest(p) \/ GpFind(p) \/ GpDebit(p) \/ GpCredit(p)
        \/ GpInsert(p) \/ GpRead(p)
        \/ DepositRequest(p) \/ PdInvoice(p) \/ PdInsert(p)
        \/ CheckRequest(p) \/ CdLookup(p) \/ CdFind(p) \/ CdCredit(p)
        \/ CdComplete(p) \/ CdNotify(p)
        \/ WithdrawRequest(p) \/ PwFind(p) \/ PwCheck(p) \/ PwDebit(p)
        \/ PwInsert(p) \/ PwNotify(p)
        \/ Abort(p)
    \/ \E n \in 1..MaxInvoices : PayInvoice(n)

Spec == Init /\ [][Next]_vars

\* Only game/play requests arrive.
NextPlay ==
    \E p \in Procs :
        \/ PlayRequest(p) \/ GpFind(p) \/ GpDebit(p) \/ GpCredit(p)
        \/ GpInsert(p) \/ GpRead(p)

SpecPlay == Init /\ [][NextPlay]_vars

\* Only process_deposit and check_deposit requests arrive, and payers pay.
NextDeposit ==
    \/ \E p \in Procs :
        \/ DepositRequest(p) \/ PdInvoice(p) \/ PdInsert(p)
        \/ CheckRequest(p) \/ CdLookup(p) \/ CdFind(p) \/ CdCredit(p)
        \/ CdComplete(p) \/ CdNotify(p)
        \/ Abort(p)
    \/ \E n \in 1..MaxInvoices : PayInvoice(n)

SpecDeposit == Init /\ [][NextDeposit]_vars

\* Only process_withdraw requests arrive.
NextWithdraw ==
    \E p \in Procs :
        \/ WithdrawRequest(p) \/ PwFind(p) \/ PwCheck(p) \/ PwDebit(p)
        \/ PwInsert(p) \/ PwNotify(p)
        \/ Abort(p)

SpecWithdraw == Init /\ [][NextWithdraw]_vars

\* The store after two paid and confirmed deposits of MIN_DEPOSIT, the first
\* by user 1 and the second by user 1 or by user 2: enough balance for two
\* withdrawals of MIN_WITHDRAW, by one user or by two.
InitFunded ==
    /\ idKind \in {"int", "str"}
    /\ \E owner \in UserIds :
        /\ users = [u \in UserIds |->
                       IF u = owner /\ u = 1 THEN Account(2 * MIN_DEPOSIT)
                       ELSE IF u = owner \/ u = 1 THEN Account(MIN_DEPOSIT)
                       ELSE Account(0)]
        /\ transactions =
               {[id |-> -n, user_id |-> IF n = 1 THEN 1 ELSE owner,
                 type |-> "deposit", amount |-> MIN_DEPOSIT,
                 status |-> IF idKind = "str" THEN "completed" ELSE "pending",
                 invoice_id |-> InvoiceId(n)] : n \in 1..2}
    /\ invoices = [n \in 1..2 |-> [amount |-> MIN_DEPOSIT, status |-> "paid"]]
    /\ games_history = {}
    /\ checks = {}
    /\ pc = [p \in Procs |-> "idle"]
    /\ loc = [p \in Procs |-> NoLoc]
    /\ did = [p \in Procs |-> {}]
    /\ conc = [p \in Procs |-> {}]

\* Only process_withdraw requests arrive and no call fails for an outside
\* reason.
NextWithdrawOnly ==
    \E p \in Procs :
        \/ WithdrawRequest(p) \/ PwFind(p) \/ PwCheck(p) \/ PwDebit(p)
        \/ PwInsert(p) \/ PwNotify(p)

SpecWithdrawFunded == InitFunded /\ [][NextWithdrawOnly]_vars

\* Only process_deposit requests arrive, and the gateway may repeat an
\* invoice id.
NextRecord ==
    \E p \in Procs :
        \/ DepositRequest(p) \/ PdInvoice(p) \/ PdInvoiceRepeated(p)
        \/ PdInsert(p)

SpecRecord == Init /\ [][NextRecord]_vars

\* Every handler that writes a transaction: process_deposit, check_deposit
\* and process_withdraw requests arrive, and payers pay.  No call fails for
\* an outside reason (a call that fails writes nothing).
NextLedger ==
    \/ \E p \in Procs :
        \/ DepositRequest(p) \/ PdInvoice(p) \/ PdInsert(p)
        \/ CheckRequest(p) \/ CdLookup(p) \/ CdFind(p) \/ CdCredit(p)
        \/ CdComplete(p) \/ CdNotify(p)
        \/ WithdrawRequest(p) \/ PwFind(p) \/ PwCheck(p) \/ PwDebit(p)
        \/ PwInsert(p) \/ PwNotify(p)
    \/ \E n \in 1..MaxInvoices : PayInvoice(n)

SpecLedger == Init /\ [][NextLedger]_vars

\* Only /start commands and webapp/init requests arrive, and no call fails
\* for an outside reason: a request only fails on the unique index.
NextAccounts ==
    \E p \in Procs :
        \/ StartCommand(p)
        \/ WebappRequest(p) \/ WiFind(p) \/ WiInsert(p) \/ WiStats(p)

SpecAccounts == Init /\ [][NextAccounts]_vars

\* The handlers that notify the admins: check_deposit and process_withdraw
\* requests arrive; the only calls that fail are the ones the model gives an
\* outcome of their own (gateway answers, sends to admins).
NextNotify ==
    \E p \in Procs :
        \/ CheckRequest(p) \/ CdLookup(p) \/ CdFind(p) \/ CdCredit(p)
        \/ CdComplete(p) \/ CdNotify(p)
        \/ WithdrawRequest(p) \/ PwFind(p) \/ PwCheck(p) \/ PwDebit(p)
        \/ PwInsert(p) \/ PwNotify(p)

SpecNotify == Init /\ [][NextNotify]_vars

\* The two web endpoints with their bodies as they arrive.
NextAuth ==
    \E p \in Procs :
        \/ WebappRequest(p) \/ WiFind(p) \/ WiInsert(p) \/ WiStats(p)
        \/ GamePlayRequest(p) \/ GpFind(p) \/ GpDebit(p) \/ GpCredit(p)
        \/ GpInsert(p) \/ GpRead(p)

SpecAuth == Init /\ [][NextAuth]_vars

\* The verifier applied to one initData.
NextCredential == \E p \in Procs : VerifyCall(p)

SpecCredential == InitCredential /\ [][NextCredential]_vars

\* slots_game applied to one bet.
NextSlots == \E p \in Procs : SlotsCall(p)

SpecSlots == InitSlots /\ [][NextSlots]_vars

\* roulette_game applied to one bet.
NextRoulette == \E p \in Procs : RouletteCall(p)

SpecRoulette == InitRoulette /\ [][NextRoulette]_vars

\* The store after user 1's deposit of MIN_DEPOSIT was credited and user 2
\* opened an account, with a gateway whose ids are integers: the balance
\* covers a bet or a withdrawal, the confirmation of the invoice still
\* credits, and both users have a balance to write to.
InitBalance ==
    /\ Init
    /\ idKind = "int"
    /\ users[1].balance = MIN_DEPOSIT
    /\ users[2].present

\* Every handler that changes a balance: game/play, check_deposit and
\* process_withdraw requests arrive.  No call fails for an outside reason.
NextBalance ==
    \E p \in Procs :
        \/ PlayRequest(p) \/ GpFind(p) \/ GpDebit(p) \/ GpCredit(p)
        \/ GpInsert(p) \/ GpRead(p)
        \/ CheckRequest(p) \/ CdLookup(p) \/ CdFind(p) \/ CdCredit(p)
        \/ CdComplete(p) \/ CdNotify(p)
        \/ WithdrawRequest(p) \/ PwFind(p) \/ PwCheck(p) \/ PwDebit(p)
        \/ PwInsert(p) \/ PwNotify(p)

SpecBalance == InitBalance /\ [][NextBalance]_vars

\* ============================================================== claims
Kind(p, k) == loc[p].kind = k
Ended(p) == pc[p] \in {"done", "failed"}

\* No other request on the same user has been in flight since request p
\* arrived: the others on that user ended before p arrived.
Undisturbed(p) ==
    \A q \in Procs \ {p} :
        loc[q].user_id = loc[p].user_id => q < p /\ q \notin conc[p]

\* C1: with game/play requests interleaving at every store call, no
\* reachable state has a negative balance.
C1_BetsKeepBalanceNonNegative ==
    \A u \in UserIds : users[u].balance >= 0

\* C2: two check_deposit requests for the same invoice that were in flight
\* together do not both credit the balance (the invoice being one whose
\* transaction the store holds under the id the requests look up).
C2_ConcurrentChecksCreditOnce ==
    \A p, q \in Procs :
        (/\ p # q
         /\ Kind(p, "check") /\ Kind(q, "check")
         /\ loc[p].invoice_id = loc[q].invoice_id
         /\ q \in conc[p]
         /\ \E t \in transactions : t.invoice_id = loc[p].invoice_id)
        => ~("credit" \in did[p] /\ "credit" \in did[q])

\* C3: of two check_deposit requests for the same invoice, recorded by
\* process_deposit, that ran one after the other, at most one credits the
\* balance.
C3_SequentialChecksCreditOnce ==
    \A p, q \in Procs :
        (/\ p # q
         /\ Kind(p, "check") /\ Kind(q, "check")
         /\ loc[p].invoice_id = loc[q].invoice_id
         /\ q \notin conc[p] /\ p \notin conc[q]
         /\ \E t \in transactions :
                t.type = "deposit" /\ t.invoice_id.v = loc[p].invoice_id.v)
        => ~("credit" \in did[p] /\ "credit" \in did[q])

\* C4: the debit of a withdrawal never leaves the balance negative (a
\* withdrawal that would is rejected instead).
C4_WithdrawDebitKeepsNonNegative ==
    [][\A p \in Procs :
          pc[p] = "pw_debit" /\ pc'[p] = "pw_insert"
          => users'[loc[p].user_id].balance >= 0]_vars

\* C5: an accepted bet with no other request on the same user interleaved
\* answers, and leaves stored, the balance read before the debit minus the
\* bet plus the win amount of the game result.
C5_BetSettlesBalance ==
    \A p \in Procs :
        (/\ Kind(p, "play") /\ pc[p] = "done" /\ loc[p].reply = "success"
         /\ Undisturbed(p))
        => /\ loc[p].new_balance =
                  loc[p].seen - loc[p].amount + loc[p].win_amount
           /\ users[loc[p].user_id].balance = loc[p].new_balance

C5_Witness ==
    \E p \in Procs :
        /\ Kind(p, "play") /\ pc[p] = "done" /\ loc[p].reply = "success"
        /\ Undisturbed(p)
        /\ loc[p].win_amount > 0

\* C6: a withdrawal whose check the gateway did not create is answered as
\* failed, has applied nothing to the store (balance as read, no withdraw
\* transaction), and a withdrawal that has debited has its check.
C6_WithdrawGatewayFailure ==
    \A p \in Procs :
        Kind(p, "withdraw") =>
            /\ loc[p].reply = "gateway_error" =>
                  /\ pc[p] = "done"
                  /\ did[p] = {}
                  /\ ~\E t \in transactions : t.id = p
                  /\ Undisturbed(p) =>
                         users[loc[p].user_id].balance = loc[p].seen
            /\ "debit" \in did[p] => \E c \in checks : c.id = p

C6_Witness ==
    \E p \in Procs :
        /\ Kind(p, "withdraw") /\ loc[p].reply = "gateway_error"
        /\ Undisturbed(p)
        /\ users[loc[p].user_id].balance = MIN_WITHDRAW

\* C7: a game/play request that has debited the bet and has ended has
\* written its game round record (the code has no reversal of the debit).
C7_BetDebitIsRecorded ==
    \A p \in Procs :
        Kind(p, "play") /\ Ended(p) /\ "debit" \in did[p]
        => "record" \in did[p]

\* C8: a check_deposit request credits only after it has itself moved the
\* transaction from pending to completed.
C8_CreditOnlyAfterCompletion ==
    \A p \in Procs :
        Kind(p, "check") /\ "credit" \in did[p] => "tx_complete" \in did[p]

\* C9: a check_deposit request credits only when the store holds a deposit
\* transaction under the reference id it looks up.
C9_CreditOnlyForRecorded ==
    \A p \in Procs :
        Kind(p, "check") /\ "credit" \in did[p]
        => \E t \in transactions :
               t.type = "deposit" /\ t.invoice_id = loc[p].invoice_id

\* C10: a check_deposit request whose lookup failed or found the invoice
\* not paid has ended and has applied nothing to the store.
C10_UnpaidCheckChangesNothing ==
    \A p \in Procs :
        Kind(p, "check") /\ loc[p].reply \in {"waiting", "check_error"}
        => pc[p] = "done" /\ did[p] = {}

C10_Witness ==
    \E p \in Procs :
        /\ Kind(p, "check") /\ loc[p].reply = "waiting"
        /\ invoices[loc[p].invoice_id.v].status = "active"

\* C11: no step of a process_deposit request changes a balance.  The step
\* that records the invoice is only reached with an amount of at least
\* MIN_DEPOSIT and an invoice the gateway created, and it adds exactly one
\* transaction: type deposit, status pending, keyed by that invoice's id.
\* Every other step of the request (the amount is not a number, is below the
\* minimum, the gateway answers not ok) leaves the transactions as they are.
C11_Recorded(p) ==
    /\ loc[p].amount >= MIN_DEPOSIT
    /\ \E n \in 1..Len(invoices) : /\ loc[p].invoice_id = InvoiceId(n)
                                   /\ invoices[n].amount = loc[p].amount
    /\ loc'[p].reply = "invoice_created"
    /\ \E doc \in transactions' :
        /\ transactions' \ transactions = {doc}
        /\ transactions \subseteq transactions'
        /\ doc.type = "deposit" /\ doc.status = "pending"
        /\ doc.invoice_id = loc[p].invoice_id
        /\ doc.user_id = loc[p].user_id /\ doc.amount = loc[p].amount

C11_DepositStep(p) ==
    /\ users' = users
    /\ IF pc[p] = "pd_insert" /\ pc'[p] = "done"
       THEN C11_Recorded(p)
       ELSE /\ transactions' = transactions
            /\ loc'[p].reply \in {"", "not_a_number", "below_minimum",
                                  "gateway_error", "exception"}

C11_DepositAddsOnePendingRecord ==
    [][\A p \in Procs :
          (pc'[p] # pc[p] /\ loc'[p].kind = "deposit") => C11_DepositStep(p)]_vars

C11_Witness ==
    \E p, q \in Procs :
        /\ Kind(p, "deposit") /\ loc[p].reply = "invoice_created"
        /\ \E t \in transactions : t.id = p /\ t.status = "pending"
        /\ Kind(q, "deposit") /\ loc[q].reply = "below_minimum"

\* C12: a bet is only taken on when its amount is within [MIN_BET, MAX_BET],
\* the account exists and the balance read covers it; a bet whose account is
\* absent or short is answered "insufficient"; and the step that answers a
\* rejected bet ("invalid_bet", "insufficient") ends the request with the
\* store as it was: no debit, no game, no round record.
C12_Short(p) ==
    \/ ~users[loc[p].user_id].present
    \/ users[loc[p].user_id].balance < loc[p].amount

C12_BetStep(p) ==
    /\ (pc[p] = "gp_find" /\ C12_Short(p)) => loc'[p].reply = "insufficient"
    /\ pc'[p] = "gp_debit" =>
           /\ MIN_BET <= loc[p].amount /\ loc[p].amount <= MAX_BET
           /\ ~C12_Short(p)
    /\ loc'[p].reply \in {"invalid_bet", "insufficient"} =>
           /\ pc'[p] = "done"
           /\ store' = store
           /\ did'[p] = {}
           /\ loc'[p].multiplier = 0 /\ loc'[p].win_amount = 0
           /\ \A h \in games_history' : h.id # p

C12_RejectedBetChangesNothing ==
    [][\A p \in Procs :
          (pc'[p] # pc[p] /\ loc'[p].kind = "play") => C12_BetStep(p)]_vars

C12_Witness ==
    \E p, q \in Procs :
        /\ Kind(p, "play") /\ loc[p].reply = "invalid_bet" /\ pc[p] = "done"
        /\ Kind(q, "play") /\ loc[q].reply = "insufficient" /\ pc[q] = "done"
        /\ ~users[loc[q].user_id].present

\* C13: every withdrawal that created its check and debited the balance has
\* stored a withdraw transaction with status completed by the time it ends.
C13_DebitedWithdrawalIsRecorded ==
    \A p \in Procs :
        (Kind(p, "withdraw") /\ Ended(p) /\ "debit" \in did[p]) =>
            \E t \in transactions :
                t.id = p /\ t.type = "withdraw" /\ t.status = "completed"

\* C14: the insert of a transaction whose invoice id some stored transaction
\* already carries fails and leaves users, transactions and rounds as they
\* were; and no step leaves two transactions with one invoice id.
C14_OneRecordPerId(txs) ==
    \A t1, t2 \in txs : t1.invoice_id = t2.invoice_id => t1 = t2

C14_InsertStep(p) ==
    (\E t \in transactions : t.invoice_id = loc[p].invoice_id) =>
        /\ pc'[p] = "failed"
        /\ store' = store
        /\ did'[p] = did[p]

C14_DuplicateInsertFails ==
    [][/\ \A p \in Procs :
              (pc[p] = "pd_insert" /\ pc'[p] # pc[p]) => C14_InsertStep(p)
       /\ C14_OneRecordPerId(transactions')]_vars

C14_Witness ==
    \E p \in Procs :
        /\ Kind(p, "deposit") /\ pc[p] = "failed" /\ did[p] = {}
        /\ \A q \in Procs : pc[q] \in {"idle", "failed"}
        /\ Cardinality(transactions) = 1

\* C15: in every step each stored transaction stays in the store, and it is
\* either unchanged or was pending and differs only in its status, which is
\* now completed or failed.  So a completed transaction never changes its
\* status, amount, type or owner again.
C15_Successor(t, t2) ==
    \/ t2 = t
    \/ /\ t.status = "pending"
       /\ t2.status \in {"completed", "failed"}
       /\ t2 = [t EXCEPT !.status = t2.status]

C15_StatusOnlyMovesForward ==
    [][\A t \in transactions :
          /\ Cardinality({t2 \in transactions' : t2.id = t.id}) = 1
          /\ \E t2 \in transactions' : t2.id = t.id /\ C15_Successor(t, t2)]_vars

C15_Witness ==
    \E p, q \in Procs :
        /\ Kind(p, "check") /\ "tx_complete" \in did[p]
        /\ Kind(q, "check") /\ pc[q] = "done" /\ q > p
        /\ loc[q].invoice_id = loc[p].invoice_id
        /\ "tx_complete" \notin did[q]
        /\ \E t \in transactions :
            t.invoice_id = loc[p].invoice_id /\ t.status = "completed"

\* C16: a step of a /start command or of a webapp/init request leaves every
\* existing account as it is and can only add an account with balance 0; an
\* account is only created for an id that has none; and whatever the order
\* of the two handlers, at most one request ever creates the account of an id.
C16_Creators(d, l, u) ==
    {p \in Procs : "create" \in d[p] /\ l[p].user_id = u}

C16_AccountStep(p) ==
    /\ \A u \in UserIds :
        /\ IF users[u].present
           THEN users'[u] = users[u]
           ELSE users'[u] \in {NoAccount, Account(0)}
        /\ Cardinality(C16_Creators(did', loc', u)) <=
               IF users[u].present THEN Cardinality(C16_Creators(did, loc, u))
               ELSE 1
    /\ "create" \in did'[p] \ did[p] =>
           /\ ~users[loc'[p].user_id].present
           /\ users'[loc'[p].user_id] = Account(0)

C16_AccountCreatedOnce ==
    [][\A p \in Procs :
          (pc'[p] # pc[p] /\ loc'[p].kind \in {"start", "webapp"}) =>
              C16_AccountStep(p)]_vars

C16_Witness ==
    \E p, q \in Procs :
        /\ Kind(p, "webapp") /\ pc[p] = "failed" /\ did[p] = {}
        /\ Kind(q, "start") /\ "create" \in did[q]
        /\ loc[q].user_id = loc[p].user_id /\ q > p

\* C17: whichever admins the notification fails for, the notifying step of
\* a deposit confirmation or of a withdrawal leaves the store and the
\* effects already applied as they are, has tried every admin, and ends
\* the request with the success message to the user.
C17_NotifyStep(p) ==
    /\ store' = store
    /\ did'[p] = did[p]
    /\ pc'[p] = "done"
    /\ loc'[p].reply = "success"
    /\ loc'[p].notified \cup loc'[p].failed = ADMIN_IDS
    /\ loc'[p].notified \cap loc'[p].failed = {}

C17_FailedNotificationIsHarmless ==
    [][\A p \in Procs :
          (pc[p] \in {"cd_notify", "pw_notify"} /\ pc'[p] # pc[p]) =>
              C17_NotifyStep(p)]_vars

C17_Witness ==
    \E p, q \in Procs :
        /\ Kind(p, "check") /\ pc[p] = "done" /\ "credit" \in did[p]
        /\ loc[p].failed # {} /\ loc[p].notified # {}
        /\ loc[p].reply = "success"
        /\ Kind(q, "withdraw") /\ pc[q] = "done" /\ loc[q].failed = ADMIN_IDS
        /\ {"debit", "tx_insert"} \subseteq did[q] /\ loc[q].reply = "success"

\* C18: a webapp/init or game/play request whose initData is missing or
\* fails verification is answered 403 on arrival, and one whose credential
\* carries no user id is answered 400, in both cases with the store and the
\* effects applied so far unchanged.
C18_Arrives(p) ==
    pc[p] = "idle" /\ pc'[p] # "idle" /\ loc'[p].kind \in {"webapp", "play"}

C18_Unverified(init_data) ==
    init_data = <<>> \/ ~validate_telegram_data(init_data)

C18_Answered(p, reply) ==
    /\ loc'[p].reply = reply
    /\ pc'[p] = "done"
    /\ store' = store
    /\ did' = did

C18_BadCredentialIsRejected ==
    [][\A p \in Procs : C18_Arrives(p) =>
          IF C18_Unverified(loc'[p].init_data)
          THEN C18_Answered(p, "forbidden")
          ELSE (Falsy(extract_user_id(loc'[p].init_data)) =>
                    C18_Answered(p, "invalid_user"))]_vars

\* The part of C18 that is about effects only: however such a request ends,
\* it ends on arrival and the store is as it was.
C18_BadCredentialChangesNothing ==
    [][\A p \in Procs :
          (/\ C18_Arrives(p)
           /\ \/ C18_Unverified(loc'[p].init_data)
              \/ Falsy(extract_user_id(loc'[p].init_data))) =>
              /\ pc'[p] \in {"done", "failed"}
              /\ store' = store
              /\ did' = did]_vars

\* C19: the verifier accepts an initData exactly when its hash field equals
\* the digest, under the key derived from the bot token, of all its other
\* k=v fields sorted and joined by newlines; an accepted initData with the
\* value of any one field, or the hash, changed is rejected; and for an
\* accepted initData with a parseable user payload the id extracted is the
\* id in that payload.
C19_Digest(init_data) ==
    hexdigest(SecretKey,
              Join(Sorted(AllLines(SelectSeq(init_data,
                                             LAMBDA f : f.k # HashKey)))))

C19_HashMatches(init_data) ==
    \E i \in 1..Len(init_data) :
        /\ init_data[i].k = HashKey
        /\ init_data[i].v = C19_Digest(init_data)
        /\ \A j \in 1..Len(init_data) : init_data[j].k = HashKey => j = i

C19_Values == FieldValues \cup {<<"a">>, hexdigest(OtherKey, <<>>)}

C19_TamperedRejected(init_data) ==
    \A i \in 1..Len(init_data) : \A v \in C19_Values \ {init_data[i].v} :
        ~validate_telegram_data([init_data EXCEPT ![i].v = v])

C19_EmbeddedId(init_data, user_id) ==
    \A i \in 1..Len(init_data) : \A d \in 0..2 :
        (/\ init_data[i] = Pair(UserKey, UserPayload(d))
         /\ \A j \in 1..Len(init_data) : init_data[j].k = UserKey => j = i)
            => user_id = d

C19_Verified(p) ==
    LET init_data == loc[p].init_data
        accepted == loc[p].reply = "valid"
    IN /\ accepted <=> C19_HashMatches(init_data)
       /\ accepted => C19_TamperedRejected(init_data)
       /\ accepted => C19_EmbeddedId(init_data, loc[p].user_id)

C19_VerifierAcceptsExactlySigned ==
    \A p \in Procs : (Kind(p, "verify") /\ pc[p] = "done") => C19_Verified(p)

\* C20: for every three reels over the six symbols the multiplier (in
\* halves) is 10x when all three are the 7, 5x when all three are the
\* diamond, 3x for any other triple, 1.5x when exactly one of the adjacent
\* pairs (first and second, second and third) is equal, and 0 otherwise,
\* also when only the first and the third are equal; and the win is the bet
\* times the multiplier.
C20_AdjacentPairs(reels) == {i \in 1..2 : reels[i] = reels[i + 1]}

C20_Multiplier(reels) ==
    IF \A i \in 1..3 : reels[i] = 5 THEN 20
    ELSE IF \A i \in 1..3 : reels[i] = 4 THEN 10
    ELSE IF Cardinality(C20_AdjacentPairs(reels)) = 2 THEN 6
    ELSE IF Cardinality(C20_AdjacentPairs(reels)) = 1 THEN 3
    ELSE 0

C20_SlotsPayTable ==
    \A p \in Procs : (Kind(p, "slots") /\ pc[p] = "done") =>
        /\ loc[p].multiplier = C20_Multiplier(loc[p].reels)
        /\ 2 * loc[p].win_amount = loc[p].amount * loc[p].multiplier

C20_Witness ==
    \E p \in Procs :
        /\ Kind(p, "slots") /\ pc[p] = "done"
        /\ loc[p].reels[1] = loc[p].reels[3]
        /\ loc[p].reels[1] # loc[p].reels[2]
        /\ loc[p].multiplier = 0 /\ loc[p].win_amount = 0

\* C21: whatever number and colour the roulette draws, the result follows
\* the separate win draw alone: multiplier 2x (4 halves) and win 2 * bet
\* when it succeeds, multiplier 0 and win 0 when it does not.
C21_RouletteFollowsWinDraw ==
    \A p \in Procs : (Kind(p, "roulette") /\ pc[p] = "done") =>
        /\ loc[p].number \in 0..36
        /\ IF loc[p].is_win
           THEN loc[p].multiplier = 4 /\ loc[p].win_amount = 2 * loc[p].amount
           ELSE loc[p].multiplier = 0 /\ loc[p].win_amount = 0

C21_Witness ==
    \E p \in Procs :
        /\ Kind(p, "roulette") /\ pc[p] = "done"
        /\ loc[p].number = 0 /\ loc[p].color = "green" /\ loc[p].is_win
        /\ loc[p].win_amount = 2 * loc[p].amount /\ loc[p].amount > 0

\* C22: in no reachable state does the gateway hold a check of a withdrawal
\* whose amount has not been debited from the balance.
C22_CheckOnlyAfterDebit ==
    \A c \in checks : "debit" \in did[c.id]

\* C22, for the withdrawals that have ended: the state the claim excludes
\* is not only passed through, it is where a failing request stays.
C22_EndedCheckIsDebited ==
    \A c \in checks : Ended(c.id) => "debit" \in did[c.id]

\* C23: every credit applied by check_deposit goes to the user of the
\* deposit transaction recorded for the invoice id confirmed.  Stated for a
\* gateway with string ids, where the id of the callback and the id stored
\* are the same value.
C23_Owner(id, u) ==
    \E t \in transactions :
        t.type = "deposit" /\ t.invoice_id = id /\ t.user_id = u

C23_CreditGoesToOwner ==
    idKind = "str" =>
        \A p \in Procs : (Kind(p, "check") /\ "credit" \in did[p]) =>
            C23_Owner(loc[p].invoice_id, loc[p].user_id)


\* The delta the step of request p applies to the balance of user u: the
\* request's own amount, signed, at its one balance write, and nothing at
\* any other step or for any other user.
C24_Delta(p, u) ==
    IF u # loc[p].user_id \/ ~users[u].present THEN 0
    ELSE CASE pc[p] = "gp_debit"  -> -loc[p].amount
           [] pc[p] = "gp_credit" -> loc'[p].win_amount
           [] pc[p] = "cd_credit" -> loc[p].amount
           [] pc[p] = "pw_debit"  -> -loc[p].amount
           [] OTHER               -> 0

\* C24: ledger conservation.  Under any interleaving of bets, deposit
\* confirmations and withdrawals every step adds to every balance exactly
\* the delta of that step (minus the bet, plus the win, plus the deposit,
\* minus the withdrawal) on top of the value the balance has at that moment,
\* so each balance is always its first value plus the sum of the deltas
\* applied; no step writes an absolute value and no account appears or goes.
C24_LedgerConservation ==
    [][\A p \in Procs : pc'[p] # pc[p] =>
           \A u \in UserIds :
               /\ users'[u].present = users[u].present
               /\ users'[u].balance = users[u].balance + C24_Delta(p, u)]_vars

\* A bet and a withdrawal of one user overlap, both have passed their
\* balance test on the same balance and both debits are in the balance.
C24_Witness ==
    \E p, q \in Procs :
        /\ Kind(p, "play") /\ pc[p] = "gp_credit"
        /\ Kind(q, "withdraw") /\ pc[q] = "pw_insert"
        /\ loc[p].user_id = loc[q].user_id
        /\ loc[p].seen = MIN_DEPOSIT /\ loc[q].seen = MIN_DEPOSIT
        /\ loc[p].amount > 0
        /\ users[loc[p].user_id].balance =
               MIN_DEPOSIT - loc[p].amount - loc[q].amount

====
